---- MODULE Spec2Model ----
(***************************************************************************)
(* Model of the price-shield pipeline: the three nodes of src/src/nodes.py *)
(* (search_products, extract_prices, generate_report), chained by the      *)
(* linear graph of src/src/graph.py and started by run_price_analysis      *)
(* (src/src/main.py) or called one node at a time by src/test.py.          *)
(*                                                                         *)
(* Every external call (tool/agent construction, agent.ainvoke, the        *)
(* structured-output LLM call, the report chain) is an await point whose   *)
(* outcome - a value or a raised exception - is chosen nondeterministically.*)
(* The nodes are also driven by run_analysis_with_progress (src/app.py)    *)
(* and by test_full_pipeline (src/test.py), which decide after each node   *)
(* whether to go on.  A run of the graph carries ui_result: what           *)
(* run_analysis_with_progress returns when it is given the same query and  *)
(* the same outcomes of the external calls.                                *)
(* One action covers the code from one await's completion to the next      *)
(* await.  Optional values are encoded as <<>> (None) or <<v>> (a value);  *)
(* floats that the code derives by division are exact fractions <<n, d>>.  *)
(***************************************************************************)
EXTENDS Integers, Sequences, FiniteSets, TLC

VARIABLES entry, pc, state, price_data, calls, report_request, raised,
          ui_result

vars ==
  <<entry, pc, state, price_data, calls, report_request, raised, ui_result>>

----------------------------------------------------------------------------
(* Bounds of the model *)

\* largest price the structured-extraction call may return
MaxPrice == 2
\* prices the structured-extraction call may return go down to -MaxNegative
MaxNegative == 1
\* longest price_data list handed directly to generate_report
MaxEntries == 4

----------------------------------------------------------------------------
(* Optional values *)

None == <<>>
Some(v) == <<v>>
Get(o) == o[1]

----------------------------------------------------------------------------
(* Exact fractions <<n, d>>, d > 0, in lowest terms *)

RECURSIVE Gcd(_, _)
Gcd(a, b) == IF b = 0 THEN a ELSE Gcd(b, a % b)

Abs(a) == IF a < 0 THEN -a ELSE a

Frac(n, d) ==
  CHOOSE f \in {IF nv = 0 THEN <<0, 1>>
                ELSE <<nv \div g, dv \div g>>
                : nv \in {n}, dv \in {d}, g \in {Gcd(Abs(n), d)}} : TRUE

FracLeq(a, b) == a[1] * b[2] <= b[1] * a[2]

FracMin(a, b) == IF FracLeq(a, b) THEN a ELSE b

FracAdd(a, b) == Frac(a[1] * b[2] + b[1] * a[2], a[2] * b[2])

FracMul(a, b) == Frac(a[1] * b[1], a[2] * b[2])

----------------------------------------------------------------------------
(* Data domains *)

\* ProductURLs: one optional URL field per platform, in declaration order
ProductURLs == <<"amazon", "walmart", "bestbuy">>

Platforms == {ProductURLs[i] : i \in 1..Len(ProductURLs)}

Queries == {"iPhone 16 256GB", "MacBook Air M2"}

\* messages of the exceptions an external call may raise
Causes == {"timeout", "bad response"}

UrlOf(p) == "https://" \o p \o ".com/p"

\* ProductURLs records the structured URL call may return: each field is
\* null or a URL, and the model also lets the call fill fields with ""
UrlResponses ==
  {[p \in Platforms |-> IF p \in S THEN Some(u[p]) ELSE None]
   : S \in SUBSET Platforms, u \in {[p \in Platforms |-> UrlOf(p)],
                                      [p \in Platforms |-> ""]}}

Prices == {None} \cup {Some(v) : v \in (-MaxNegative)..MaxPrice}

\* title and availability as the structured price call fills them in: both
\* left at the defaults of ExtractedPrice, or both found
Details ==
  {[title |-> "", availability |-> "Unknown"],
   [title |-> "LG TV", availability |-> "In Stock"]}

\* ExtractedPrice: what the structured price call may return
ExtractedPrice ==
  {[price |-> p, title |-> d.title, availability |-> d.availability]
   : p \in Prices, d \in Details}

\* contents the report chain may return
Reports == {"", "Price report"}

\* the state run_price_analysis hands to graph.ainvoke
InitialState(q) ==
  [product_query |-> q, search_results |-> <<>>, price_data |-> <<>>,
   final_report |-> "", error |-> None, confidence_score |-> None]

\* the query of the states test.py builds by hand
TestQuery == "LG 55 TV"

RECURSIVE Orderings(_)
\* every ordering of every subset of the platform set S, as a mapping
\* platform -> URL kept in insertion order
Orderings(S) ==
  {<<>>} \cup
  UNION {{<<<<p, UrlOf(p)>>>> \o t : t \in Orderings(S \ {p})} : p \in S}

\* search_results that test_extract_prices may hand to extract_prices
TestSearchResults == Orderings(Platforms)

TestRecord(i, pr) ==
  [platform |-> ProductURLs[((i - 1) % Len(ProductURLs)) + 1],
   price |-> pr, title |-> "LG TV",
   url |-> UrlOf(ProductURLs[((i - 1) % Len(ProductURLs)) + 1]),
   availability |-> "In Stock", error |-> None]

\* price_data that test_generate_report may hand to generate_report: one
\* record per price of the list f
TestPriceData(f) == [i \in 1..Len(f) |-> TestRecord(i, f[i])]

----------------------------------------------------------------------------
(* create_insurance_graph: the linear three-node workflow *)

entry_point == "search_products"

finish_point == "generate_report"

edges ==
  [search_products |-> "extract_prices", extract_prices |-> "generate_report"]

SearchLabels ==
  {"search_products", "search_products.agent", "search_products.structured"}

ExtractLabels ==
  {"extract_prices", "extract_prices.agent", "extract_prices.structured"}

\* the node a label belongs to
NodeOf(label) ==
  CASE label \in SearchLabels -> "search_products"
    [] label \in ExtractLabels -> "extract_prices"
    [] OTHER -> label

\* result.get("error") as a condition: None and "" are both falsy
error_set(st) == st.error # None /\ Get(st.error) # ""

\* run_analysis_with_progress: what it does with the state st a node returned
progress_next(node, st) ==
  CASE node = "search_products" ->
         IF error_set(st) \/ st.search_results = <<>>
         THEN "END" ELSE "extract_prices"
    [] node = "extract_prices" ->
         IF error_set(st) THEN "END" ELSE "generate_report"
    [] OTHER -> "END"

\* test_full_pipeline: what it does with the state st a node returned
full_pipeline_next(node, st) ==
  CASE node = "search_products" ->
         IF st.search_results = <<>> THEN "END" ELSE "extract_prices"
    [] node = "extract_prices" -> "generate_report"
    [] OTHER -> "END"

\* where control goes when a node returns state': along the graph's edge
\* when the graph drives the nodes, where the driver's checks send it when
\* a driver calls the nodes, back to the caller when a node was called alone
AfterNode(node) ==
  CASE entry = "run_price_analysis" ->
         IF node # finish_point THEN edges[node] ELSE "END"
    [] entry = "run_analysis_with_progress" -> progress_next(node, state')
    [] entry = "test_full_pipeline" -> full_pipeline_next(node, state')
    [] OTHER -> "END"

\* run_analysis_with_progress on the same query and outcomes as a run of the
\* graph: it gets the same state from each node while it goes on, and
\* returns that state where its checks stop it
progress_follows ==
  ui_result' =
    IF /\ entry = "run_price_analysis"
       /\ ui_result = None
       /\ pc' # "raised"
       /\ NodeOf(pc') # NodeOf(pc)
       /\ progress_next(NodeOf(pc), state') = "END"
    THEN Some(state')
    ELSE ui_result

\* one entry of the log of external calls: which node made it, what it was,
\* for which platform ("" when not per-platform) and whether it raised
Call(node, kind, platform, ok) ==
  [node |-> node, kind |-> kind, platform |-> platform, ok |-> ok]

----------------------------------------------------------------------------
(* Initial states: the five ways the source starts the nodes *)

Init ==
  /\ entry \in {"run_price_analysis", "run_analysis_with_progress",
                "test_full_pipeline", "test_extract_prices",
                "test_generate_report"}
  /\ \/ /\ entry = "run_price_analysis"
        /\ \E q \in Queries : state = InitialState(q)
        /\ pc = entry_point
     \/ /\ entry \in {"run_analysis_with_progress", "test_full_pipeline"}
        /\ \E q \in Queries : state = InitialState(q)
        /\ pc = "search_products"
     \/ /\ entry = "test_extract_prices"
        /\ \E sr \in TestSearchResults :
             state = [InitialState(TestQuery) EXCEPT !.search_results = sr]
        /\ pc = "extract_prices"
     \/ /\ entry = "test_generate_report"
        /\ \E n \in 0..MaxEntries : \E f \in [1..n -> Prices] :
             state = [InitialState(TestQuery) EXCEPT
                        !.price_data = TestPriceData(f)]
        /\ pc = "generate_report"
  /\ price_data = <<>>
  /\ calls = <<>>
  /\ report_request = None
  /\ raised = None
  /\ ui_result = None

----------------------------------------------------------------------------
(* Node 1: search_products *)

\* an except branch that keeps a URL found before the failure
search_products_failed_partial(st, cause) ==
  [st EXCEPT !.search_results = <<<<"amazon", UrlOf("amazon")>>>>,
             !.error = Some("Product search failed: " \o cause)]

\* an except branch that also puts the failure into the report
search_products_failed_reported(st, cause) ==
  [st EXCEPT !.search_results = <<>>,
             !.error = Some("Product search failed: " \o cause),
             !.final_report = "Product search failed: " \o cause]

\* the except branch of search_products
search_products_failed(st, cause) ==
  [st EXCEPT !.search_results = <<>>,
             !.error = Some("Product search failed: " \o cause)]

RECURSIVE urls(_, _)
\* {k: v for k, v in url_response.dict().items() if v is not None}
urls(url_response, i) ==
  IF i > Len(ProductURLs) THEN <<>>
  ELSE LET k == ProductURLs[i]
           v == url_response[k]
       IN  (IF v # None THEN <<<<k, Get(v)>>>> ELSE <<>>)
           \o urls(url_response, i + 1)

\* create_tools + create_react_agent: raises, or the agent is ready
search_products_build ==
  /\ pc = "search_products"
  /\ \/ \E cause \in Causes :
          /\ calls' = Append(calls,
                             Call("search_products", "create_tools", "", FALSE))
          /\ state' = search_products_failed(state, cause)
          /\ pc' = AfterNode("search_products")
     \/ /\ calls' = Append(calls,
                           Call("search_products", "create_tools", "", TRUE))
        /\ pc' = "search_products.agent"
        /\ UNCHANGED state
  /\ UNCHANGED <<entry, price_data, report_request, raised>>
  /\ progress_follows

\* agent.ainvoke: raises, or returns its free-text answer
search_products_agent ==
  /\ pc = "search_products.agent"
  /\ \/ \E cause \in Causes :
          /\ calls' = Append(calls,
                             Call("search_products", "agent", "", FALSE))
          /\ state' = search_products_failed(state, cause)
          /\ pc' = AfterNode("search_products")
     \/ /\ calls' = Append(calls,
                           Call("search_products", "agent", "", TRUE))
        /\ pc' = "search_products.structured"
        /\ UNCHANGED state
  /\ UNCHANGED <<entry, price_data, report_request, raised>>
  /\ progress_follows

\* structured_llm.ainvoke: raises, or returns a ProductURLs record that is
\* filtered into search_results
search_products_structured ==
  /\ pc = "search_products.structured"
  /\ \/ \E cause \in Causes :
          /\ calls' = Append(calls,
                             Call("search_products", "structured", "", FALSE))
          /\ state' = search_products_failed(state, cause)
     \/ \E url_response \in UrlResponses :
          /\ calls' = Append(calls,
                             Call("search_products", "structured", "", TRUE))
          /\ state' = [state EXCEPT
                         !.search_results = urls(url_response, 1)]
  /\ pc' = AfterNode("search_products")
  /\ UNCHANGED <<entry, price_data, report_request, raised>>
  /\ progress_follows

----------------------------------------------------------------------------
(* Node 2: extract_prices *)

\* the record appended when the structured call returned structured_data
price_record(platform, url, structured_data) ==
  [platform |-> platform, price |-> structured_data.price,
   title |-> structured_data.title, url |-> url,
   availability |-> structured_data.availability, error |-> None]

\* a failure record that drops the cause
error_record_silent(platform, url, cause) ==
  [platform |-> platform, price |-> None, title |-> "", url |-> url,
   availability |-> "Unknown", error |-> None]

\* the record appended by the per-platform except branch
error_record(platform, url, cause) ==
  [platform |-> platform, price |-> None, title |-> "", url |-> url,
   availability |-> "Error extracting", error |-> Some(cause)]

\* the (platform, url) pair the for loop is at
current_item == state.search_results[Len(price_data) + 1]

\* price_data.append(rec), then the next iteration of the for loop or, when
\* search_results.items() is exhausted, return {**state, "price_data": ...}
append_and_continue(rec) ==
  LET pd == Append(price_data, rec)
  IN  /\ price_data' = pd
      /\ IF Len(pd) = Len(state.search_results)
         THEN /\ state' = [state EXCEPT !.price_data = pd]
              /\ pc' = AfterNode("extract_prices")
         ELSE /\ pc' = "extract_prices.agent"
              /\ UNCHANGED state

\* the node without its empty check: the agent is built for an empty mapping
\* too, and the loop then runs over whatever there is
extract_prices_begin_unchecked ==
  /\ pc = "extract_prices"
  /\ price_data' = <<>>
  /\ \/ \E cause \in Causes :
          /\ calls' = Append(calls, Call("extract_prices",
                                         "create_tools", "", FALSE))
          /\ state' = [state EXCEPT
                         !.price_data = <<>>,
                         !.error = Some("Price extraction failed: "
                                        \o cause)]
          /\ pc' = AfterNode("extract_prices")
     \/ /\ calls' = Append(calls, Call("extract_prices",
                                       "create_tools", "", TRUE))
        /\ IF state.search_results = <<>>
           THEN /\ state' = [state EXCEPT !.price_data = <<>>]
                /\ pc' = AfterNode("extract_prices")
           ELSE /\ pc' = "extract_prices.agent"
                /\ UNCHANGED state
  /\ UNCHANGED <<entry, report_request, raised>>
  /\ progress_follows

\* the node with a build failure handled like a per-platform one: the loop
\* goes on without an agent
extract_prices_begin_no_abort ==
  /\ pc = "extract_prices"
  /\ IF state.search_results = <<>>
     THEN /\ state' = [state EXCEPT
                         !.price_data = <<>>,
                         !.error =
                           Some("No product URLs found to extract prices from")]
          /\ pc' = AfterNode("extract_prices")
          /\ UNCHANGED <<price_data, calls>>
     ELSE /\ price_data' = <<>>
          /\ \E ok \in BOOLEAN :
               calls' = Append(calls, Call("extract_prices",
                                           "create_tools", "", ok))
          /\ pc' = "extract_prices.agent"
          /\ UNCHANGED state
  /\ UNCHANGED <<entry, report_request, raised>>
  /\ progress_follows

\* entry of the node: the empty check, then create_tools + create_react_agent
extract_prices_begin ==
  /\ pc = "extract_prices"
  /\ IF state.search_results = <<>>
     THEN /\ state' = [state EXCEPT
                         !.price_data = <<>>,
                         !.error =
                           Some("No product URLs found to extract prices from")]
          /\ pc' = AfterNode("extract_prices")
          /\ UNCHANGED <<price_data, calls>>
     ELSE /\ price_data' = <<>>
          /\ \/ \E cause \in Causes :
                  /\ calls' = Append(calls, Call("extract_prices",
                                                 "create_tools", "", FALSE))
                  /\ state' = [state EXCEPT
                                 !.price_data = <<>>,
                                 !.error = Some("Price extraction failed: "
                                                \o cause)]
                  /\ pc' = AfterNode("extract_prices")
             \/ /\ calls' = Append(calls, Call("extract_prices",
                                               "create_tools", "", TRUE))
                /\ pc' = "extract_prices.agent"
                /\ UNCHANGED state
  /\ UNCHANGED <<entry, report_request, raised>>
  /\ progress_follows

\* the agent call with a failure that ends the loop: the node returns the
\* records it has so far
extract_prices_agent_break ==
  /\ pc = "extract_prices.agent"
  /\ \/ \E cause \in Causes :
          /\ calls' = Append(calls, Call("extract_prices", "agent",
                                         current_item[1], FALSE))
          /\ price_data' =
               Append(price_data,
                      error_record(current_item[1], current_item[2], cause))
          /\ state' = [state EXCEPT !.price_data = price_data']
          /\ pc' = AfterNode("extract_prices")
     \/ /\ calls' = Append(calls, Call("extract_prices", "agent",
                                       current_item[1], TRUE))
        /\ pc' = "extract_prices.structured"
        /\ UNCHANGED <<state, price_data>>
  /\ UNCHANGED <<entry, report_request, raised>>
  /\ progress_follows

\* the agent call with one retry: the first failure for a platform leaves the
\* loop where it is, the second one is recorded
extract_prices_agent_retry ==
  /\ pc = "extract_prices.agent"
  /\ \/ \E cause \in Causes :
          /\ calls' = Append(calls, Call("extract_prices", "agent",
                                         current_item[1], FALSE))
          /\ IF calls # <<>> /\ calls[Len(calls)] =
                  Call("extract_prices", "agent", current_item[1], FALSE)
             THEN append_and_continue(
                    error_record(current_item[1], current_item[2], cause))
             ELSE UNCHANGED <<pc, state, price_data>>
     \/ /\ calls' = Append(calls, Call("extract_prices", "agent",
                                       current_item[1], TRUE))
        /\ pc' = "extract_prices.structured"
        /\ UNCHANGED <<state, price_data>>
  /\ UNCHANGED <<entry, report_request, raised>>
  /\ progress_follows

\* agent.ainvoke for the current platform: raises, or returns free text
extract_prices_agent ==
  /\ pc = "extract_prices.agent"
  /\ \/ \E cause \in Causes :
          /\ calls' = Append(calls, Call("extract_prices", "agent",
                                         current_item[1], FALSE))
          /\ append_and_continue(
               error_record(current_item[1], current_item[2], cause))
     \/ /\ calls' = Append(calls, Call("extract_prices", "agent",
                                       current_item[1], TRUE))
        /\ pc' = "extract_prices.structured"
        /\ UNCHANGED <<state, price_data>>
  /\ UNCHANGED <<entry, report_request, raised>>
  /\ progress_follows

\* structured_llm.ainvoke for the current platform: raises, or returns an
\* ExtractedPrice
extract_prices_structured ==
  /\ pc = "extract_prices.structured"
  /\ \/ \E cause \in Causes :
          /\ calls' = Append(calls, Call("extract_prices", "structured",
                                         current_item[1], FALSE))
          /\ append_and_continue(
               error_record(current_item[1], current_item[2], cause))
     \/ \E structured_data \in ExtractedPrice :
          /\ calls' = Append(calls, Call("extract_prices", "structured",
                                         current_item[1], TRUE))
          /\ append_and_continue(
               price_record(current_item[1], current_item[2],
                            structured_data))
  /\ UNCHANGED <<entry, report_request, raised>>
  /\ progress_follows

----------------------------------------------------------------------------
(* Node 3: generate_report *)

RECURSIVE valid_prices(_)
\* [item["price"] for item in price_data if item.get("price") is not None]
valid_prices(pd) ==
  IF pd = <<>> THEN <<>>
  ELSE (IF Head(pd).price # None THEN <<Get(Head(pd).price)>> ELSE <<>>)
       \o valid_prices(Tail(pd))

RECURSIVE Insert(_, _)
Insert(x, s) ==
  IF s = <<>> THEN <<x>>
  ELSE IF x <= Head(s) THEN <<x>> \o s
  ELSE <<Head(s)>> \o Insert(x, Tail(s))

RECURSIVE sorted(_)
sorted(s) ==
  IF s = <<>> THEN <<>>
  ELSE CHOOSE r \in {Insert(Head(s), t) : t \in {sorted(Tail(s))}} : TRUE

RECURSIVE Sum(_)
Sum(s) == IF s = <<>> THEN 0 ELSE Head(s) + Sum(Tail(s))

\* a median that takes the upper middle value of an even-count sample
median_high(s) ==
  LET data == sorted(s)
      n == Len(s)
  IN  Frac(data[n \div 2 + 1], 1)

\* statistics.median: the middle value, or the average of the two middle ones
median(s) ==
  LET data == sorted(s)
      n == Len(s)
  IN  IF n % 2 = 1 THEN Frac(data[n \div 2 + 1], 1)
      ELSE Frac(data[n \div 2] + data[n \div 2 + 1], 2)

\* statistics.mean
mean(s) == Frac(Sum(s), Len(s))

\* min(valid_prices)
min_price(s) == Frac(sorted(s)[1], 1)

\* max(valid_prices)
max_price(s) == Frac(sorted(s)[Len(s)], 1)

\* the score with platforms_found / 3 taken as an integer division
confidence_score_floordiv(platforms_found) ==
  FracMin(<<10, 1>>,
          FracAdd(FracMul(Frac(platforms_found \div 3, 1), <<8, 1>>),
                  <<2, 1>>))

\* min(10.0, (platforms_found / 3.0) * 8.0 + 2.0)
confidence_score(platforms_found) ==
  CHOOSE score \in
    {FracMin(<<10, 1>>, sum)
     : sum \in {FracAdd(FracMul(Frac(platforms_found, 3), <<8, 1>>),
                        <<2, 1>>)}} : TRUE

\* str.title() on the platform identifiers
title_case(p) ==
  CASE p = "amazon" -> "Amazon"
    [] p = "walmart" -> "Walmart"
    [] p = "bestbuy" -> "Bestbuy"
    [] OTHER -> p

\* if item.get("price"): None and 0.0 are both falsy
truthy(price) == price # None /\ Get(price) # 0

\* one line of platform_text
platform_line(item) ==
  IF truthy(item.price)
  THEN [platform |-> title_case(item.platform), text |-> "price and title",
        price |-> item.price, title |-> item.title]
  ELSE [platform |-> title_case(item.platform), text |-> "No price found",
        price |-> None, title |-> ""]

\* platform_text: one line per item of price_data
platform_text(pd) == [i \in 1..Len(pd) |-> platform_line(pd[i])]

\* the fixed message of the no-prices branch (without its leading emoji)
no_prices_report(product_query) == "No prices found for " \o product_query

\* the keyword arguments of report_chain.ainvoke
report_inputs(product_query, pd) ==
  CHOOSE inputs \in
    {[product |-> product_query,
      median |-> median(vp),
      average |-> mean(vp),
      min |-> min_price(vp),
      max |-> max_price(vp),
      confidence |-> confidence_score(Len(vp)),
      platform_data |-> platform_text(pd)] : vp \in {valid_prices(pd)}} :
    TRUE

\* the node with the no-prices test on price_data instead of valid_prices:
\* a list of null-priced entries reaches the report chain
generate_report_empty_test ==
  /\ pc = "generate_report"
  /\ IF state.price_data = <<>>
     THEN /\ state' = [state EXCEPT
                         !.final_report =
                           no_prices_report(state.product_query),
                         !.confidence_score = Some(<<0, 1>>)]
          /\ pc' = AfterNode("generate_report")
          /\ UNCHANGED <<calls, report_request, raised>>
     ELSE /\ report_request' =
                Some([product |-> state.product_query,
                      median |-> <<0, 1>>, average |-> <<0, 1>>,
                      min |-> <<0, 1>>, max |-> <<0, 1>>,
                      confidence |->
                        confidence_score(Len(valid_prices(state.price_data))),
                      platform_data |-> platform_text(state.price_data)])
          /\ \E content \in Reports :
               /\ calls' = Append(calls, Call("generate_report",
                                              "render", "", TRUE))
               /\ state' = [state EXCEPT
                              !.final_report = content,
                              !.confidence_score =
                                Some(confidence_score(
                                  Len(valid_prices(state.price_data))))]
               /\ pc' = AfterNode("generate_report")
               /\ UNCHANGED raised
  /\ UNCHANGED <<entry, price_data>>
  /\ progress_follows

\* the whole node: the no-prices branch, or the statistics and the report
\* chain, whose exception leaves the node uncaught
generate_report ==
  /\ pc = "generate_report"
  /\ IF valid_prices(state.price_data) = <<>>
     THEN /\ state' = [state EXCEPT
                         !.final_report =
                           no_prices_report(state.product_query),
                         !.confidence_score = Some(<<0, 1>>)]
          /\ pc' = AfterNode("generate_report")
          /\ UNCHANGED <<calls, report_request, raised>>
     ELSE /\ report_request' =
                Some(report_inputs(state.product_query, state.price_data))
          /\ \/ \E cause \in Causes :
                  /\ calls' = Append(calls, Call("generate_report",
                                                 "render", "", FALSE))
                  /\ raised' = Some(cause)
                  /\ pc' = "raised"
                  /\ UNCHANGED state
             \/ \E content \in Reports :
                  /\ calls' = Append(calls, Call("generate_report",
                                                 "render", "", TRUE))
                  /\ state' = [state EXCEPT
                                 !.final_report = content,
                                 !.confidence_score =
                                   Some(confidence_score(
                                     Len(valid_prices(state.price_data))))]
                  /\ pc' = AfterNode("generate_report")
                  /\ UNCHANGED raised
  /\ UNCHANGED <<entry, price_data>>
  /\ progress_follows

----------------------------------------------------------------------------

Next ==
  \/ search_products_build
  \/ search_products_agent
  \/ search_products_structured
  \/ extract_prices_begin
  \/ extract_prices_agent
  \/ extract_prices_structured
  \/ generate_report

Spec == Init /\ [][Next]_vars

\* the runs of the graph entry point
InitGraph == Init /\ entry = "run_price_analysis"

\* runs of the graph in which every external call returns or raises, so that
\* the node that awaits it goes on
LiveSpec == InitGraph /\ [][Next]_vars /\ WF_vars(Next)

----------------------------------------------------------------------------
(* Vocabulary of the properties *)

\* the external call the step just taken has made
LastCall == calls'[Len(calls')]

IsAttempt(c) == c.node = "extract_prices" /\ c.kind = "agent"

\* platforms for which extract_prices has called the agent, in call order
attempted ==
  LET a == SelectSeq(calls, IsAttempt)
  IN  [i \in 1..Len(a) |-> a[i].platform]

\* the keys of search_results in iteration order
keys == [i \in 1..Len(state.search_results) |-> state.search_results[i][1]]

\* extract_prices has built its agent, run its loop and returned
LoopReturned == pc \notin ExtractLabels /\ attempted # <<>>

BuildFailed(node) ==
  \E i \in 1..Len(calls) :
    calls[i].node = node /\ calls[i].kind = "create_tools" /\ ~calls[i].ok

----------------------------------------------------------------------------
(* C1 *)

\* C1 (as stated): in a run of the graph, once a step has set `error`, every
\* later step returns the state it received unchanged and makes no external
\* call.
C1_LaterStepsPassThrough ==
  [][(/\ entry = "run_price_analysis"
      /\ pc \in {"extract_prices", "generate_report"}
      /\ state.error # None)
     => (state' = state /\ calls' = calls
         /\ report_request' = report_request)]_vars

----------------------------------------------------------------------------
(* C2 *)

\* C2: with a non-empty search_results and the agent built, extract_prices
\* calls the agent exactly once per key, in iteration order, whatever fails;
\* it returns price_data with exactly one record per key in that order, and
\* it leaves the state-level `error` unset.
C2_OneRecordPerKey ==
  /\ attempted =
       SubSeq(keys, 1, Len(price_data)
                       + (IF pc = "extract_prices.structured" THEN 1 ELSE 0))
  /\ \A i \in 1..Len(price_data) :
       /\ price_data[i].platform = state.search_results[i][1]
       /\ price_data[i].url = state.search_results[i][2]
  /\ LoopReturned =>
       /\ attempted = keys
       /\ state.price_data = price_data
       /\ Len(state.price_data) = Len(state.search_results)
       /\ state.error = None

\* a three-platform run in which the first and the last platform failed (one
\* in the agent call, one in the structured call) and the middle one did not
C2_Witness ==
  /\ LoopReturned
  /\ Len(state.price_data) = 3
  /\ state.price_data[1].error # None
  /\ state.price_data[2].error = None
  /\ state.price_data[3].error # None
  /\ \E i, j \in 1..Len(calls) :
       /\ calls[i].node = "extract_prices" /\ calls[i].kind = "agent"
       /\ ~calls[i].ok
       /\ calls[j].node = "extract_prices" /\ calls[j].kind = "structured"
       /\ ~calls[j].ok

----------------------------------------------------------------------------
(* C3 *)

\* C3: called with an empty search_results, extract_prices returns at once
\* with price_data = [] and the no-URLs error, having built no agent and made
\* no external call.
C3_EmptySearchResults ==
  [][(pc = "extract_prices" /\ state.search_results = <<>>)
     => (/\ state'.price_data = <<>>
         /\ state'.error =
              Some("No product URLs found to extract prices from")
         /\ calls' = calls
         /\ pc' \notin ExtractLabels)]_vars

\* extract_prices called alone on an empty search_results has returned
C3_Witness ==
  /\ entry = "test_extract_prices"
  /\ pc = "END"
  /\ state.search_results = <<>>
  /\ state.error = Some("No product URLs found to extract prices from")
  /\ calls = <<>>

----------------------------------------------------------------------------
(* C4 *)

\* C4: when an external call of search_products raises, the node returns at
\* once with error = "Product search failed: <cause>" and an empty
\* search_results; so whenever search_products returns, a non-null error
\* comes with an empty search_results.
C4_SearchFailureIsTotal ==
  [][(pc \in SearchLabels /\ calls' # calls)
     => (/\ ~LastCall.ok =>
              /\ \E cause \in Causes :
                   state'.error = Some("Product search failed: " \o cause)
              /\ state'.search_results = <<>>
              /\ pc' \notin SearchLabels
         /\ (pc' \notin SearchLabels /\ state'.error # None) =>
              state'.search_results = <<>>)]_vars

\* the structured URL call, the last of the three, raised
C4_Witness ==
  /\ entry = "run_price_analysis"
  /\ pc = "extract_prices"
  /\ Len(calls) = 3
  /\ calls[3].kind = "structured" /\ ~calls[3].ok
  /\ state.error = Some("Product search failed: timeout")
  /\ state.search_results = <<>>

----------------------------------------------------------------------------
(* C5 *)

\* C5: when building the agent of extract_prices raises, the node has made
\* no per-platform call and returns price_data = [] and
\* error = "Price extraction failed: <cause>".
C5_BuildFailureAborts ==
  BuildFailed("extract_prices") =>
    /\ pc \notin ExtractLabels
    /\ \A i \in 1..Len(calls) :
         calls[i].node = "extract_prices" => calls[i].kind = "create_tools"
    /\ price_data = <<>>
    /\ state.price_data = <<>>
    /\ \E cause \in Causes :
         state.error = Some("Price extraction failed: " \o cause)

\* a graph run whose extract_prices could not build its agent
C5_Witness ==
  /\ entry = "run_price_analysis"
  /\ BuildFailed("extract_prices")
  /\ state.search_results # <<>>
  /\ state.error = Some("Price extraction failed: bad response")

----------------------------------------------------------------------------
(* C6 *)

NoPriceIn(pd) == \A i \in 1..Len(pd) : pd[i].price = None

\* C6: when no entry of price_data has a non-null price, generate_report
\* sets final_report to the fixed no-prices message for product_query and
\* confidence_score to 0.0 and does not call the report chain.
C6_NoPricesBranch ==
  [][(pc = "generate_report" /\ NoPriceIn(state.price_data))
     => (/\ state'.final_report =
              "No prices found for " \o state.product_query
         /\ state'.confidence_score = Some(<<0, 1>>)
         /\ calls' = calls
         /\ report_request' = None
         /\ pc' = "END")]_vars

\* generate_report has returned for a list of two or more null-priced entries
C6_Witness ==
  /\ pc = "END"
  /\ Len(state.price_data) >= 2
  /\ NoPriceIn(state.price_data)
  /\ state.final_report = "No prices found for LG 55 TV"
  /\ state.confidence_score = Some(<<0, 1>>)
  /\ calls = <<>>

----------------------------------------------------------------------------
(* C7 *)

\* number of entries of pd with a non-null price
PricedCount(pd) == Cardinality({i \in 1..Len(pd) : pd[i].price # None})

\* min(10, (L/3)*8 + 2) as a fraction: a third of min(30, 8L + 6)
ExpectedScore(L) == Frac(IF 8 * L + 6 < 30 THEN 8 * L + 6 ELSE 30, 3)

\* C7: confidence_score is unset until generate_report returns; then it is 0
\* when no price is non-null, and min(10, (L/3)*8 + 2) for L >= 1 non-null
\* prices, whatever the prices and the report text are: 10 for L = 3, always
\* within [0, 10] and never 2.
C7_ConfidenceScore ==
  LET L == PricedCount(state.price_data)
      score == Get(state.confidence_score)
  IN  state.confidence_score # None =>
        /\ L >= 1 => score = ExpectedScore(L)
        /\ L = 3 => score = <<10, 1>>
        /\ L = 0 => score = <<0, 1>>
        /\ FracLeq(<<0, 1>>, score) /\ FracLeq(score, <<10, 1>>)
        /\ score # <<2, 1>>

\* a report was rendered over exactly two non-null prices: score 22/3
C7_Witness ==
  /\ pc = "END"
  /\ PricedCount(state.price_data) = 2
  /\ state.final_report = "Price report"
  /\ state.confidence_score = Some(<<22, 3>>)

----------------------------------------------------------------------------
(* C8 *)

RecordInvariant(r) ==
  \/ r.price # None /\ Get(r.price) > 0 /\ r.error = None
  \/ r.price = None
     /\ (r.availability = "Error extracting" \/ r.error # None)

\* C8 (as stated): every record extract_prices appends has a positive price
\* and no error, or a null price and either availability "Error extracting"
\* or an error.
C8_RecordInvariant ==
  \A i \in 1..Len(price_data) : RecordInvariant(price_data[i])

----------------------------------------------------------------------------
(* C9 *)

\* C9 (as stated): the breakdown handed to the report chain has one line per
\* entry of price_data, in order, and a line shows price and title exactly
\* when the entry's price is non-null, otherwise "No price found".
C9_BreakdownCoversAll ==
  report_request # None =>
    LET lines == Get(report_request).platform_data
        pd == state.price_data
    IN  /\ Len(lines) = Len(pd)
        /\ \A i \in 1..Len(pd) :
             /\ lines[i].platform = title_case(pd[i].platform)
             /\ IF pd[i].price # None
                THEN /\ lines[i].text = "price and title"
                     /\ lines[i].price = pd[i].price
                     /\ lines[i].title = pd[i].title
                ELSE lines[i].text = "No price found"

----------------------------------------------------------------------------
(* C10 *)

\* the non-null prices of pd, by position
PricedAt(pd) == {i \in 1..Len(pd) : pd[i].price # None}

RECURSIVE TotalOver(_, _)
TotalOver(pd, I) ==
  IF I = {} THEN 0
  ELSE LET i == CHOOSE j \in I : TRUE
       IN  Get(pd[i].price) + TotalOver(pd, I \ {i})

\* C10: the statistics handed to the report chain are those of the non-null
\* prices only: min and max are the least and the greatest of them, mean is
\* their sum over their count, and median is the average of the lower and
\* the upper middle value (the same value for an odd count); so
\* min <= median <= max and min <= mean <= max.
C10_Statistics ==
  report_request # None =>
    LET pd == state.price_data
        I == PricedAt(pd)
        n == Cardinality(I)
        V == {Get(pd[i].price) : i \in I}
        AtLeast(v) == Cardinality({i \in I : Get(pd[i].price) >= v})
        AtMost(v) == Cardinality({i \in I : Get(pd[i].price) <= v})
        half == n \div 2 + 1
        lower == CHOOSE v \in V :
                   /\ AtLeast(v) >= half
                   /\ \A w \in V : AtLeast(w) >= half => w <= v
        upper == CHOOSE v \in V :
                   /\ AtMost(v) >= half
                   /\ \A w \in V : AtMost(w) >= half => v <= w
        req == Get(report_request)
    IN  /\ n >= 1
        /\ req.min[2] = 1 /\ req.min[1] \in V
        /\ \A v \in V : req.min[1] <= v
        /\ req.max[2] = 1 /\ req.max[1] \in V
        /\ \A v \in V : v <= req.max[1]
        /\ req.average[1] * n = TotalOver(pd, I) * req.average[2]
        /\ req.median[1] * 2 = (lower + upper) * req.median[2]
        /\ FracLeq(req.min, req.median) /\ FracLeq(req.median, req.max)
        /\ FracLeq(req.min, req.average) /\ FracLeq(req.average, req.max)

\* an even count of non-null prices with a median between the two middle
\* values, next to a null-priced entry that is left out
C10_Witness ==
  /\ report_request # None
  /\ PricedCount(state.price_data) = 2
  /\ Len(state.price_data) = 3
  /\ Get(report_request).median = <<3, 2>>
  /\ Get(report_request).min = <<1, 1>>
  /\ Get(report_request).max = <<2, 1>>

----------------------------------------------------------------------------
(* C11 *)

\* C11 (as stated): when the structured URL call returns a record,
\* search_results holds exactly the platforms whose field is non-null, in
\* field order, each with the URL of its field, and no URL is "".
C11_FoundUrlsOnly ==
  [][(pc = "search_products.structured" /\ calls' # calls /\ LastCall.ok)
     => \E r \in UrlResponses :
          LET sr == state'.search_results
              found == {p \in Platforms : r[p] # None}
          IN  /\ {sr[i][1] : i \in 1..Len(sr)} = found
              /\ Len(sr) = Cardinality(found)
              /\ \A i \in 1..Len(sr) :
                   /\ sr[i][2] = Get(r[sr[i][1]])
                   /\ sr[i][2] # ""]_vars

----------------------------------------------------------------------------
(* C12 *)

\* the fields of the pipeline state other than those in W are the same in
\* s and t
SameExcept(s, t, W) ==
  /\ "product_query" \in W \/ s.product_query = t.product_query
  /\ "search_results" \in W \/ s.search_results = t.search_results
  /\ "price_data" \in W \/ s.price_data = t.price_data
  /\ "final_report" \in W \/ s.final_report = t.final_report
  /\ "error" \in W \/ s.error = t.error
  /\ "confidence_score" \in W \/ s.confidence_score = t.confidence_score

\* C12: product_query never changes; search_products writes at most
\* search_results and error, extract_prices at most price_data and error,
\* generate_report at most final_report and confidence_score; final_report
\* and confidence_score have their initial values as long as generate_report
\* has not run.
C12_Frame ==
  [][/\ state'.product_query = state.product_query
     /\ pc \in SearchLabels =>
          SameExcept(state, state', {"search_results", "error"})
     /\ pc \in ExtractLabels =>
          SameExcept(state, state', {"price_data", "error"})
     /\ pc = "generate_report" =>
          /\ SameExcept(state, state', {"final_report", "confidence_score"})
          /\ state.final_report = "" /\ state.confidence_score = None
     /\ pc \in SearchLabels \cup ExtractLabels =>
          /\ state.final_report = "" /\ state.confidence_score = None
          /\ state'.final_report = "" /\ state'.confidence_score = None]_vars

\* a graph run in which each node has written its outputs
C12_Witness ==
  /\ entry = "run_price_analysis"
  /\ pc = "END"
  /\ Len(state.search_results) = 2
  /\ Len(state.price_data) = 2
  /\ state.final_report = "Price report"
  /\ state.confidence_score # None
  /\ state.product_query = "MacBook Air M2"

----------------------------------------------------------------------------
(* C13 *)

\* C13: a raising call of search_products or extract_prices never leaves the
\* node as an exception: it becomes the state-level error or the error of
\* the platform's record.  A raising report chain does leave generate_report
\* (and with it the graph's run) as an exception, with no error set in the
\* state.
C13_OnlyRenderPropagates ==
  [][(calls' # calls /\ ~LastCall.ok)
     => IF LastCall.kind = "render"
        THEN /\ raised' # None
             /\ pc' = "raised"
             /\ state' = state
             /\ state'.error = None
        ELSE /\ raised' = None
             /\ pc' # "raised"
             /\ IF LastCall.kind \in {"agent", "structured"}
                   /\ LastCall.node = "extract_prices"
                THEN /\ price_data' # <<>>
                     /\ price_data'[Len(price_data')].platform =
                          LastCall.platform
                     /\ price_data'[Len(price_data')].error
                          \in {Some(c) : c \in Causes}
                     /\ state'.error = state.error
                ELSE \E c \in Causes :
                       state'.error \in
                         {Some("Product search failed: " \o c),
                          Some("Price extraction failed: " \o c)}]_vars

\* the report chain raised in a run of the graph, after one platform's
\* extraction had failed and been recorded
C13_Witness ==
  /\ entry = "run_price_analysis"
  /\ pc = "raised"
  /\ raised = Some("timeout")
  /\ state.error = None
  /\ state.final_report = ""
  /\ \E i \in 1..Len(state.price_data) : state.price_data[i].error # None

----------------------------------------------------------------------------
(* C14 *)

NodeRank(label) ==
  CASE NodeOf(label) = "search_products" -> 1
    [] NodeOf(label) = "extract_prices" -> 2
    [] NodeOf(label) = "generate_report" -> 3
    [] OTHER -> 4

\* C14 (as stated): in a run of the graph control only moves forward, a node
\* is entered only from the node before it, and generate_report is entered
\* only when price_data has an outcome for every key of search_results.
C14_StrictlyForward ==
  [][entry = "run_price_analysis" =>
       /\ NodeRank(pc') >= NodeRank(pc)
       /\ (pc' # pc /\ pc' \in {"search_products", "extract_prices",
                                "generate_report"})
            => NodeRank(pc') = NodeRank(pc) + 1
       /\ (pc' # pc /\ pc' = "generate_report")
            => /\ Len(state'.price_data) = Len(state'.search_results)
               /\ \A i \in 1..Len(state'.price_data) :
                    state'.price_data[i].platform =
                      state'.search_results[i][1]]_vars

----------------------------------------------------------------------------
(* C15 *)

\* C15 (as stated): run_analysis_with_progress and test_full_pipeline call
\* extract_prices and generate_report only with a state whose error is unset.
C15_DriversStopOnError ==
  [][(/\ entry \in {"run_analysis_with_progress", "test_full_pipeline"}
      /\ pc' # pc
      /\ pc' \in {"extract_prices", "generate_report"})
     => state'.error = None]_vars

----------------------------------------------------------------------------
(* C16 *)

CallsOf(node, kind, platform) ==
  {i \in 1..Len(calls) : /\ calls[i].node = node
                         /\ calls[i].kind = kind
                         /\ calls[i].platform = platform}

\* no node builds its agent twice and no platform is attempted twice
NoRetry ==
  /\ \A node \in {"search_products", "extract_prices"} :
       Cardinality(CallsOf(node, "create_tools", "")) <= 1
  /\ Cardinality(CallsOf("search_products", "agent", "")) <= 1
  /\ Cardinality(CallsOf("search_products", "structured", "")) <= 1
  /\ Cardinality(CallsOf("generate_report", "render", "")) <= 1
  /\ \A p \in Platforms :
       /\ Cardinality(CallsOf("extract_prices", "agent", p)) <= 1
       /\ Cardinality(CallsOf("extract_prices", "structured", p)) <= 1

\* C16: when every external call returns or raises, a run of the graph ends,
\* with a state or with the exception of the report chain, and nothing is
\* retried on the way.
C16_EndsWithoutRetry ==
  /\ <>(pc \in {"END", "raised"})
  /\ []NoRetry

\* a run of the graph has ended after a platform's agent call raised
C16_Witness ==
  /\ entry = "run_price_analysis"
  /\ pc = "END"
  /\ Len(state.price_data) = 3
  /\ \E i \in 1..Len(calls) :
       calls[i].node = "extract_prices" /\ calls[i].kind = "agent"
       /\ ~calls[i].ok

----------------------------------------------------------------------------
(* C17 *)

\* C17 (as stated): in a run of the graph, once error is non-null it keeps
\* its value to the end of the run.
C17_ErrorMonotone ==
  [][(entry = "run_price_analysis" /\ state.error # None)
     => state'.error = state.error]_vars

----------------------------------------------------------------------------
(* C18 *)

\* C18 (as stated): for the same query and the same outcomes of the external
\* calls, the state run_analysis_with_progress returns is the state the
\* graph's run returns.
C18_SameFinalState ==
  (entry = "run_price_analysis" /\ pc = "END") => ui_result = Some(state)

----------------------------------------------------------------------------
(* C19 *)

\* C19 (as stated): a state returned by run_analysis_with_progress has a
\* non-null error or a non-empty final_report.
C19_OutcomeReported ==
  (entry = "run_analysis_with_progress" /\ pc = "END")
    => (state.error # None \/ state.final_report # "")

====
